---- MODULE Spec2Model ----
(***************************************************************************)
(* Model of src/visualize.py: a module-level script that loads two CSV     *)
(* tables with pandas and issues pyplot calls, one statement per step.     *)
(*                                                                         *)
(* State: the two input files, the display, the interpreter's position     *)
(* (pc = line of the next statement), the module globals data, data_scw,   *)
(* d, fig, and pyplot's list of figures.  A statement that raises leaves   *)
(* pc on the raising line and terminates the process with status 1.        *)
(*                                                                         *)
(* Legend labels and the title are transliterated to ASCII:                *)
(*   "BCh" (bent), "NE BCh" (non-bent), "Zavisimosti ot D".                *)
(***************************************************************************)
EXTENDS Integers, Sequences, FiniteSets, TLC

VARIABLES fs, display, run, pc, status, exit, err,
          data, data_scw, d, fig, figures, executed, reads, firstFigures

vars == <<fs, display, run, pc, status, exit, err,
          data, data_scw, d, fig, figures, executed, reads, firstFigures>>

(* ---------------------------- bounds ----------------------------------- *)
MaxRows == 2
NumSamples == 2
MaxRuns == 2

(* ---------------------------- input files ------------------------------ *)
PathData == "rate_example.csv"
PathScw == "rate_side_bend.csv"
Paths == {PathData, PathScw}

AllColumns == <<"D", "R_dl", "amp", "deltaEC">>
ColumnSet == {AllColumns[i] : i \in 1..Len(AllColumns)}

\* The numeric field of column c in simulation sample k.  The script does no
\* arithmetic on the values; distinct columns and samples get distinct values.
SampleVal(c, k) ==
    CASE c = "D" -> 10 * k
      [] c = "R_dl" -> 100 - k
      [] c = "amp" -> 200 + k
      [] c = "deltaEC" -> 300 + k

HeaderOf(S) == SelectSeq(AllColumns, LAMBDA c : c \in S)
Headers == {HeaderOf(S) : S \in (SUBSET ColumnSet) \ {{}}}
RecordOf(h, k) == [j \in 1..Len(h) |-> SampleVal(h[j], k)]

RECURSIVE SeqsUpTo(_, _)
SeqsUpTo(S, n) ==
    IF n = 0 THEN {<<>>}
    ELSE LET shorter == SeqsUpTo(S, n - 1)
         IN shorter \cup {Append(s, x) : s \in {t \in shorter : Len(t) = n - 1}, x \in S}

MissingFile == [exists |-> FALSE, header |-> <<>>, records |-> <<>>]
EmptyFile == [exists |-> TRUE, header |-> <<>>, records |-> <<>>]
\* header row plus up to MaxRows records of exactly Len(header) fields
RegularFiles ==
    {[exists |-> TRUE, header |-> h,
      records |-> [i \in 1..Len(ks) |-> RecordOf(h, ks[i])]] :
        h \in Headers, ks \in SeqsUpTo(1..NumSamples, MaxRows)}
\* a later record carries one field more than the header and the first record
RaggedFiles ==
    {[exists |-> TRUE, header |-> h,
      records |-> <<RecordOf(h, 1), Append(RecordOf(h, 1), 0)>>] : h \in Headers}
Files == {MissingFile, EmptyFile} \cup RegularFiles \cup RaggedFiles

(* ---------------------------- pandas ----------------------------------- *)
NoError == [type |-> "none", key |-> ""]
Error(t) == [type |-> t, key |-> ""]
KeyError(c) == [type |-> "KeyError", key |-> c]

NoCols == [c \in {} |-> <<>>]
NoFrame == [loaded |-> FALSE, col |-> NoCols]

\* read_csv as a loader that yields an empty frame for a missing file
read_csv_missing_as_empty(f) ==
    IF ~f.exists THEN [err |-> NoError, df |-> [loaded |-> TRUE, col |-> NoCols]]
    ELSE IF f.header = <<>> THEN [err |-> Error("EmptyDataError"), df |-> NoFrame]
    ELSE IF \E i \in 1..Len(f.records) : Len(f.records[i]) > Len(f.header)
         THEN [err |-> Error("ParserError"), df |-> NoFrame]
    ELSE [err |-> NoError,
          df |-> [loaded |-> TRUE,
                  col |-> [c \in {f.header[j] : j \in 1..Len(f.header)} |->
                             LET j == CHOOSE j \in 1..Len(f.header) : f.header[j] = c
                             IN [i \in 1..Len(f.records) |-> f.records[i][j]]]]]

\* read_csv as a loader that checks the four columns at load time
read_csv_validating(f) ==
    IF ~f.exists THEN [err |-> Error("FileNotFoundError"), df |-> NoFrame]
    ELSE IF f.header = <<>> THEN [err |-> Error("EmptyDataError"), df |-> NoFrame]
    ELSE IF \E i \in 1..Len(f.records) : Len(f.records[i]) > Len(f.header)
         THEN [err |-> Error("ParserError"), df |-> NoFrame]
    ELSE IF \E c \in ColumnSet : c \notin {f.header[j] : j \in 1..Len(f.header)}
         THEN [err |-> KeyError(CHOOSE c \in ColumnSet :
                                  c \notin {f.header[j] : j \in 1..Len(f.header)}),
               df |-> NoFrame]
    ELSE [err |-> NoError,
          df |-> [loaded |-> TRUE,
                  col |-> [c \in {f.header[j] : j \in 1..Len(f.header)} |->
                             LET j == CHOOSE j \in 1..Len(f.header) : f.header[j] = c
                             IN [i \in 1..Len(f.records) |-> f.records[i][j]]]]]

\* pd.read_csv(path, sep=','): the header row names the columns, each record
\* contributes one value per column, in row order.  (Inputs whose first
\* record is longer than the header, which pandas reads as an index column,
\* are not among Files.)
read_csv(f) ==
    IF ~f.exists THEN [err |-> Error("FileNotFoundError"), df |-> NoFrame]
    ELSE IF f.header = <<>> THEN [err |-> Error("EmptyDataError"), df |-> NoFrame]
    ELSE IF \E i \in 1..Len(f.records) : Len(f.records[i]) > Len(f.header)
         THEN [err |-> Error("ParserError"), df |-> NoFrame]
    ELSE [err |-> NoError,
          df |-> [loaded |-> TRUE,
                  col |-> [c \in {f.header[j] : j \in 1..Len(f.header)} |->
                             LET j == CHOOSE j \in 1..Len(f.header) : f.header[j] = c
                             IN [i \in 1..Len(f.records) |-> f.records[i][j]]]]]

\* df[c] as a lookup that yields an empty series for an absent column
getitem_or_empty(df, c) ==
    IF c \in DOMAIN df.col THEN [err |-> NoError, val |-> df.col[c]]
    ELSE [err |-> NoError, val |-> <<>>]

\* df[c]: the column as a series, KeyError when the frame has no such column
getitem(df, c) ==
    IF c \in DOMAIN df.col THEN [err |-> NoError, val |-> df.col[c]]
    ELSE [err |-> KeyError(c), val |-> <<>>]

(* ---------------------------- control ---------------------------------- *)
Order == <<5, 6, 9, 10, 11, 12, 13, 14, 16, 17, 18, 19, 20, 21, 22, 23,
           25, 26, 29, 30, 31, 32, 33, 37, 38, 39, 40, 41,
           45, 46, 47, 48, 49, 52, 53>>
FirstLine == 5
EndOfScript == 54

IndexOf(l) == CHOOSE i \in 1..Len(Order) : Order[i] = l
\* the script without the plt.show() of line 14
NextLine_without_show(l) ==
    IF IndexOf(l) = Len(Order) THEN EndOfScript
    ELSE IF l = 13 THEN 16 ELSE Order[IndexOf(l) + 1]

NextLine(l) == IF IndexOf(l) = Len(Order) THEN EndOfScript ELSE Order[IndexOf(l) + 1]

At(l) == status = "running" /\ pc = l

\* the statement at pc completed; the interpreter moves to the next one and
\* the process exits with status 0 after the last
Advance ==
    /\ pc' = NextLine(pc)
    /\ executed' = Append(executed, pc)
    /\ status' = IF NextLine(pc) = EndOfScript THEN "done" ELSE "running"
    /\ exit' = IF NextLine(pc) = EndOfScript THEN 0 ELSE exit
    /\ err' = err

\* an exception swallowed by a bare except: the script carries on
Raise_swallowed(e) == Advance

\* an exception nobody catches: traceback and exit status 1
Raise(e) ==
    /\ status' = "aborted"
    /\ exit' = 1
    /\ err' = e
    /\ UNCHANGED <<pc, executed>>

\* import matplotlib.pyplot: a fresh process has no figures
FreshFigures == <<>>

Init ==
    /\ fs \in [Paths -> Files]
    /\ display \in {"ok", "unavailable"}
    /\ run = 1
    /\ pc = FirstLine
    /\ status = "running"
    /\ exit = -1
    /\ err = NoError
    /\ data = NoFrame
    /\ data_scw = NoFrame
    /\ d = "unbound"
    /\ fig = 0
    /\ figures = FreshFigures
    /\ executed = <<>>
    /\ reads = {}
    /\ firstFigures = <<>>

\* data = pd.read_csv('rate_example.csv',sep=',')
L5 ==
    /\ At(5)
    /\ LET r == read_csv(fs[PathData])
       IN IF r.err = NoError
          THEN data' = r.df /\ Advance
          ELSE data' = data /\ Raise(r.err)
    /\ UNCHANGED <<fs, display, run, data_scw, d, fig, figures, reads, firstFigures>>

\* data_scw = pd.read_csv('rate_side_bend.csv',sep=',')
L6 ==
    /\ At(6)
    /\ LET r == read_csv(fs[PathScw])
       IN IF r.err = NoError
          THEN data_scw' = r.df /\ Advance
          ELSE data_scw' = data_scw /\ Raise(r.err)
    /\ UNCHANGED <<fs, display, run, data, d, fig, figures, reads, firstFigures>>

(* ---------------------------- pyplot ----------------------------------- *)
NewAxes == [lines |-> <<>>, yscale |-> "linear", xlabel |-> "", ylabel |-> "",
            title |-> "", legend |-> <<>>, grid |-> FALSE]
NewFigure(n, share) == [axes |-> [i \in 1..n |-> NewAxes], sharex |-> share,
                        tight |-> FALSE, shown |-> FALSE]
Line2D(x, y, ls, color, label) ==
    [x |-> x, y |-> y, ls |-> ls, marker |-> "o", color |-> color, label |-> label]

\* Axes methods
ax_plot(ax, ln) == [ax EXCEPT !.lines = Append(@, ln)]
ax_set_yscale(ax, s) == [ax EXCEPT !.yscale = s]
ax_semilogy(ax, ln) == ax_plot(ax_set_yscale(ax, "log"), ln)
ax_set_xlabel(ax, s) == [ax EXCEPT !.xlabel = s]
ax_set_ylabel(ax, s) == [ax EXCEPT !.ylabel = s]
ax_set_title(ax, s) == [ax EXCEPT !.title = s]
\* legend(): one entry per labelled line currently on the axes
ax_legend(ax) == [ax EXCEPT !.legend = [i \in 1..Len(ax.lines) |-> ax.lines[i].label]]
\* grid() without arguments toggles the grid lines
ax_grid(ax) == [ax EXCEPT !.grid = ~@]

\* pyplot state machine: the current figure is the last one created, the
\* current axes its last axes, created on demand
gca(f) == IF f.axes = <<>> THEN [f EXCEPT !.axes = <<NewAxes>>] ELSE f
CurAx(figs) == LET f == gca(figs[Len(figs)]) IN f.axes[Len(f.axes)]
SetGca(figs, ax) ==
    LET f == gca(figs[Len(figs)])
    IN [figs EXCEPT ![Len(figs)] = [f EXCEPT !.axes[Len(f.axes)] = ax]]
\* axes[i] of the figure bound by line 25 (axes[0] is index 1)
Axes(figs, n, i) == figs[n].axes[i]
SetAxes(figs, n, i, ax) == [figs EXCEPT ![n].axes[i] = ax]

plt_figure(figs) == Append(figs, NewFigure(0, FALSE))
plt_subplots(figs, nrows, share) == Append(figs, NewFigure(nrows, share))
plt_tight_layout(figs) == [figs EXCEPT ![Len(figs)].tight = TRUE]
plt_show(figs) == [i \in 1..Len(figs) |-> [figs[i] EXCEPT !.shown = TRUE]]

\* the two positional arguments df['D'], df[ycol], evaluated left to right
ReadXY(df, ycol) ==
    LET x == getitem(df, "D")
        y == getitem(df, ycol)
    IN [err |-> IF x.err # NoError THEN x.err ELSE y.err,
        x |-> x.val, y |-> y.val,
        tried |-> IF x.err # NoError THEN {"D"} ELSE {"D", ycol}]
Reads(table, cols, l) == {[table |-> table, col |-> c, line |-> l] : c \in cols}

BentLine(a) == Line2D(a.x, a.y, "--", "r", "BCh")
NonBentLine(a) == Line2D(a.x, a.y, "-", "b", "NE BCh")

(* ---------------------------- statements ------------------------------- *)
\* a pyplot statement that reads no table
Stmt(l, newfigs) ==
    /\ At(l)
    /\ figures' = newfigs
    /\ Advance
    /\ UNCHANGED <<fs, display, run, data, data_scw, d, fig, reads, firstFigures>>

\* a plotting statement whose arguments are two columns of one table
PlotStmt(l, table, a, newfigs) ==
    /\ At(l)
    /\ reads' = reads \cup Reads(table, a.tried, l)
    /\ IF a.err = NoError
       THEN figures' = newfigs /\ Advance
       ELSE figures' = figures /\ Raise(a.err)
    /\ UNCHANGED <<fs, display, run, data, data_scw, d, fig, firstFigures>>

\* a statement that opens a figure window
OpenStmt(l, newfigs, newfig) ==
    /\ At(l)
    /\ IF display = "ok"
       THEN figures' = newfigs /\ fig' = newfig /\ Advance
       ELSE figures' = figures /\ fig' = fig /\ Raise(Error("DisplayError"))
    /\ UNCHANGED <<fs, display, run, data, data_scw, d, reads, firstFigures>>

\* Figure 1
L9 == OpenStmt(9, plt_figure(figures), fig)
L10 ==
    LET a == ReadXY(data_scw, "R_dl")
    IN PlotStmt(10, "data_scw", a,
                SetGca(figures, ax_semilogy(CurAx(figures), BentLine(a))))
L11 == Stmt(11, SetGca(figures, ax_set_xlabel(CurAx(figures), "Distance km")))
L12 == Stmt(12, SetGca(figures, ax_set_ylabel(CurAx(figures), "Rate")))
L13 == Stmt(13, SetGca(figures, ax_legend(CurAx(figures))))
L14 == Stmt(14, plt_show(figures))

\* Figure 2
L16 == OpenStmt(16, plt_figure(figures), fig)
L17 ==
    LET a == ReadXY(data, "R_dl")
    IN PlotStmt(17, "data", a,
                SetGca(figures, ax_semilogy(CurAx(figures), NonBentLine(a))))
\* line 18 left out: Figure 2 without the bent overlay
L18_without_overlay == Stmt(18, figures)

L18 ==
    LET a == ReadXY(data_scw, "R_dl")
    IN PlotStmt(18, "data_scw", a,
                SetGca(figures, ax_semilogy(CurAx(figures), BentLine(a))))
L19 == Stmt(19, SetGca(figures, ax_set_ylabel(CurAx(figures), "R_dl")))
L20 == Stmt(20, SetGca(figures, ax_legend(CurAx(figures))))
L21 == Stmt(21, SetGca(figures, ax_grid(CurAx(figures))))
L22 == Stmt(22, plt_tight_layout(figures))
L23 == Stmt(23, plt_show(figures))

\* Figure 3: fig, axes = plt.subplots(3, 1, figsize=(10, 15), sharex=True)
L25 == OpenStmt(25, plt_subplots(figures, 3, TRUE), Len(figures) + 1)
\* line 26 as data = data.head(1): the table is cut to its first row
L26_truncating ==
    /\ At(26)
    /\ d' = "data.head"
    /\ data' = [data EXCEPT !.col = [c \in DOMAIN data.col |->
                                        IF data.col[c] = <<>> THEN <<>>
                                        ELSE <<data.col[c][1]>>]]
    /\ Advance
    /\ UNCHANGED <<fs, display, run, data_scw, fig, figures, reads, firstFigures>>

\* d = data.head binds the method without calling it
L26 ==
    /\ At(26)
    /\ d' = "data.head"
    /\ Advance
    /\ UNCHANGED <<fs, display, run, data, data_scw, fig, figures, reads, firstFigures>>
\* a panel statement preceded by its commented-out non-bent twin
BothStmt(l, i, ycol) ==
    LET b == ReadXY(data, ycol)
        a == ReadXY(data_scw, ycol)
    IN /\ At(l)
       /\ reads' = reads \cup Reads("data", b.tried, l)
                         \cup (IF b.err = NoError THEN Reads("data_scw", a.tried, l) ELSE {})
       /\ IF b.err = NoError /\ a.err = NoError
          THEN /\ figures' = SetAxes(figures, fig, i,
                                     ax_plot(ax_plot(Axes(figures, fig, i), NonBentLine(b)),
                                             BentLine(a)))
               /\ Advance
          ELSE figures' = figures /\ Raise(IF b.err # NoError THEN b.err ELSE a.err)
       /\ UNCHANGED <<fs, display, run, data, data_scw, d, fig, firstFigures>>
L29_with_nonbent == BothStmt(29, 1, "amp")
L37_with_nonbent == BothStmt(37, 2, "R_dl")

L29 ==
    LET a == ReadXY(data_scw, "amp")
    IN PlotStmt(29, "data_scw", a,
                SetAxes(figures, fig, 1, ax_plot(Axes(figures, fig, 1), BentLine(a))))
L30 == Stmt(30, SetAxes(figures, fig, 1, ax_set_ylabel(Axes(figures, fig, 1), "amp")))
L31 == Stmt(31, SetAxes(figures, fig, 1, ax_set_title(Axes(figures, fig, 1), "Zavisimosti ot D")))
L32 == Stmt(32, SetAxes(figures, fig, 1, ax_legend(Axes(figures, fig, 1))))
L33 == Stmt(33, SetAxes(figures, fig, 1, ax_grid(Axes(figures, fig, 1))))
L37 ==
    LET a == ReadXY(data_scw, "R_dl")
    IN PlotStmt(37, "data_scw", a,
                SetAxes(figures, fig, 2, ax_plot(Axes(figures, fig, 2), BentLine(a))))
L38 == Stmt(38, SetAxes(figures, fig, 2, ax_set_yscale(Axes(figures, fig, 2), "log")))
L39 == Stmt(39, SetAxes(figures, fig, 2, ax_set_ylabel(Axes(figures, fig, 2), "R_dl")))
L40 == Stmt(40, SetAxes(figures, fig, 2, ax_legend(Axes(figures, fig, 2))))
L41 == Stmt(41, SetAxes(figures, fig, 2, ax_grid(Axes(figures, fig, 2))))
L45 ==
    LET a == ReadXY(data_scw, "deltaEC")
    IN PlotStmt(45, "data_scw", a,
                SetAxes(figures, fig, 3, ax_plot(Axes(figures, fig, 3), BentLine(a))))
L46 == Stmt(46, SetAxes(figures, fig, 3, ax_set_xlabel(Axes(figures, fig, 3), "D")))
L47 == Stmt(47, SetAxes(figures, fig, 3, ax_set_ylabel(Axes(figures, fig, 3), "deltaEC")))
L48 == Stmt(48, SetAxes(figures, fig, 3, ax_legend(Axes(figures, fig, 3))))
L49 == Stmt(49, SetAxes(figures, fig, 3, ax_grid(Axes(figures, fig, 3))))
L52 == Stmt(52, plt_tight_layout(figures))
L53 == Stmt(53, plt_show(figures))

\* a second invocation inside the same interpreter: pyplot keeps its figures
NewProcess_keeping_figures ==
    /\ status \in {"done", "aborted"}
    /\ run < MaxRuns
    /\ run' = run + 1
    /\ firstFigures' = IF run = 1 THEN figures ELSE firstFigures
    /\ pc' = FirstLine
    /\ status' = "running"
    /\ exit' = -1
    /\ err' = NoError
    /\ data' = NoFrame
    /\ data_scw' = NoFrame
    /\ d' = "unbound"
    /\ fig' = 0
    /\ figures' = figures
    /\ executed' = <<>>
    /\ reads' = {}
    /\ UNCHANGED <<fs, display>>

\* the script is invoked again on the same files once the process has ended
NewProcess ==
    /\ status \in {"done", "aborted"}
    /\ run < MaxRuns
    /\ run' = run + 1
    /\ firstFigures' = IF run = 1 THEN figures ELSE firstFigures
    /\ pc' = FirstLine
    /\ status' = "running"
    /\ exit' = -1
    /\ err' = NoError
    /\ data' = NoFrame
    /\ data_scw' = NoFrame
    /\ d' = "unbound"
    /\ fig' = 0
    /\ figures' = FreshFigures
    /\ executed' = <<>>
    /\ reads' = {}
    /\ UNCHANGED <<fs, display>>

Next ==
    \/ L5 \/ L6
    \/ L9 \/ L10 \/ L11 \/ L12 \/ L13 \/ L14
    \/ L16 \/ L17 \/ L18 \/ L19 \/ L20 \/ L21 \/ L22 \/ L23
    \/ L25 \/ L26 \/ L29 \/ L30 \/ L31 \/ L32 \/ L33
    \/ L37 \/ L38 \/ L39 \/ L40 \/ L41
    \/ L45 \/ L46 \/ L47 \/ L48 \/ L49 \/ L52 \/ L53
    \/ NewProcess

Spec == Init /\ [][Next]_vars

(* ======================= properties of the script ====================== *)
\* What the inputs say, read off the files without going through the script.
ColumnsOf(f) == {f.header[j] : j \in 1..Len(f.header)}
Unparseable(f) ==
    f.exists /\ (f.header = <<>> \/ \E i \in 1..Len(f.records) : Len(f.records[i]) # Len(f.header))
Parseable(f) == f.exists /\ ~Unparseable(f)
WellFormed(f) == Parseable(f) /\ ColumnsOf(f) = ColumnSet
FieldsOf(f, c) ==
    [i \in 1..Len(f.records) |->
        f.records[i][CHOOSE j \in 1..Len(f.header) : f.header[j] = c]]
AnyMissing == \E p \in Paths : ~fs[p].exists

\* the columns each plotting line names, per table
Referenced ==
    {<<10, PathScw, "D">>, <<10, PathScw, "R_dl">>,
     <<17, PathData, "D">>, <<17, PathData, "R_dl">>,
     <<18, PathScw, "D">>, <<18, PathScw, "R_dl">>,
     <<29, PathScw, "D">>, <<29, PathScw, "amp">>,
     <<37, PathScw, "D">>, <<37, PathScw, "R_dl">>,
     <<45, PathScw, "D">>, <<45, PathScw, "deltaEC">>}
\* would the statement on line l fail on these inputs
WouldFail(l) ==
    \/ l = 5 /\ ~Parseable(fs[PathData])
    \/ l = 6 /\ ~Parseable(fs[PathScw])
    \/ l \in {9, 16, 25} /\ display # "ok"
    \/ \E r \in Referenced : r[1] = l /\ r[3] \notin ColumnsOf(fs[r[2]])
FailingLines == {Order[i] : i \in {j \in 1..Len(Order) : WouldFail(Order[j])}}
FirstFailing ==
    IF FailingLines = {} THEN EndOfScript
    ELSE CHOOSE l \in FailingLines : \A m \in FailingLines : l <= m

Finished(n) == Len(figures) >= n /\ figures[n].shown
LinesOn(n, i) == figures[n].axes[i].lines
Fig1Complete ==
    /\ Finished(1) /\ Len(figures[1].axes) = 1 /\ Len(LinesOn(1, 1)) = 1
Fig2Complete ==
    /\ Finished(2) /\ Len(figures[2].axes) = 1 /\ Len(LinesOn(2, 1)) = 2
Fig3Complete ==
    /\ Finished(3) /\ Len(figures[3].axes) = 3
    /\ \A i \in 1..3 : Len(LinesOn(3, i)) = 1
ExecutedPrefix ==
    /\ Len(executed) <= Len(Order)
    /\ executed = SubSeq(Order, 1, Len(executed))
    /\ pc = IF Len(executed) = Len(Order) THEN EndOfScript ELSE Order[Len(executed) + 1]

(* ---- C1 ---- *)
\* C1 as stated: whenever one of the two input files is missing, no figure is
\* ever created, the run never completes, and when it has failed the failure
\* is FileNotFound.
C1_Original ==
    AnyMissing =>
        /\ figures = <<>>
        /\ status # "done"
        /\ status = "aborted" => err.type = "FileNotFoundError"

\* C1 amended: whenever one of the two input files is missing, the run fails
\* in one of the two load statements and no figure is ever created; the
\* failure is FileNotFound, except that it is the parse error of the first
\* load when rate_example.csv exists but cannot be parsed (the missing file
\* is then rate_side_bend.csv, which is never opened).
C1_MissingFileFailsBeforePlotting ==
    AnyMissing =>
        /\ figures = <<>>
        /\ status # "done"
        /\ status = "aborted" =>
             /\ pc \in {5, 6}
             /\ IF Unparseable(fs[PathData])
                THEN pc = 5 /\ err.type \in {"EmptyDataError", "ParserError"}
                ELSE err.type = "FileNotFoundError"

C1_Witness ==
    /\ status = "aborted" /\ pc = 6
    /\ data.loaded /\ ~fs[PathScw].exists
    /\ err.type = "FileNotFoundError" /\ figures = <<>>

(* ---- C2 ---- *)
C2_Endings ==
    /\ status = "done" =>
         /\ exit = 0 /\ err = NoError /\ executed = Order
         /\ Len(figures) = 3 /\ Fig1Complete /\ Fig2Complete /\ Fig3Complete
    /\ status = "aborted" =>
         /\ exit > 0 /\ err # NoError
         /\ pc = FirstFailing
         /\ ExecutedPrefix
    /\ status = "running" => exit = -1 /\ err = NoError
    /\ \A i, j \in 1..Len(executed) : executed[i] = executed[j] => i = j

\* C2: a run ends either with all three figures rendered and exit status 0,
\* or aborted with a non-zero status at the first statement that fails on the
\* inputs; no statement is executed twice, and once the process has ended
\* nothing more of that run executes (the only step left is a new invocation).
C2_NoPartialSuccess ==
    /\ []C2_Endings
    /\ [][status # "running" =>
            /\ run' = run + 1 /\ pc' = FirstLine /\ executed' = <<>>]_vars

C2_Witness ==
    /\ status = "aborted" /\ exit = 1 /\ pc = 29
    /\ err.type = "KeyError" /\ Len(figures) = 3

(* ---- C3 ---- *)
\* C3: when the bent table (the one the top panel plots) has no amp column,
\* the top panel of Figure 3 never holds a series, no statement after line 29
\* executes, and the failure at line 29 is the KeyError naming amp.
C3_MissingAmpFailsTopPanel ==
    "amp" \notin ColumnsOf(fs[PathScw]) =>
        /\ fig # 0 => LinesOn(fig, 1) = <<>>
        /\ \A i \in 1..Len(executed) : executed[i] < 29
        /\ status # "done"
        /\ (status = "aborted" /\ pc = 29) => err = KeyError("amp")

C3_Witness ==
    /\ status = "aborted" /\ pc = 29 /\ err = KeyError("amp")
    /\ fig = 3 /\ LinesOn(3, 1) = <<>>

(* ---- C4 ---- *)
\* C4: with two well-formed files (and a working display) the run does not
\* fail, and when complete it has produced exactly 3 figures; the second has
\* one axes with the two series non-bent, bent and a legend entry for each;
\* the third has 3 subplots sharing the x-axis.
C4_ThreeFigures ==
    (WellFormed(fs[PathData]) /\ WellFormed(fs[PathScw]) /\ display = "ok") =>
        /\ status # "aborted"
        /\ status = "done" =>
             /\ Len(figures) = 3
             /\ Len(figures[2].axes) = 1
             /\ Len(LinesOn(2, 1)) = 2
             /\ LinesOn(2, 1)[1].label = "NE BCh"
             /\ LinesOn(2, 1)[2].label = "BCh"
             /\ figures[2].axes[1].legend = <<"NE BCh", "BCh">>
             /\ Len(figures[3].axes) = 3
             /\ figures[3].sharex

C4_Witness ==
    /\ status = "done" /\ Len(figures) = 3
    /\ WellFormed(fs[PathData]) /\ WellFormed(fs[PathScw])
    /\ Len(fs[PathData].records) = 2 /\ Len(fs[PathScw].records) = 2
    /\ figures[2].axes[1].legend = <<"NE BCh", "BCh">>

(* ---- C5 ---- *)
\* C5: the statements executed so far are always an initial segment of the
\* script order (load non-bent, load bent, Figure 1, Figure 2, Figure 3); no
\* figure exists before both tables are loaded; Figure 1 is complete and
\* shown before Figure 2 is started, and Figure 2 before Figure 3.
C5_LinearOrder ==
    /\ ExecutedPrefix
    /\ data_scw.loaded => data.loaded
    /\ Len(figures) >= 1 => data.loaded /\ data_scw.loaded
    /\ Len(figures) >= 2 => Fig1Complete
    /\ Len(figures) >= 3 => Fig2Complete
    /\ Len(figures) <= 3

C5_Witness ==
    /\ status = "running" /\ pc = 17
    /\ Len(figures) = 2 /\ figures[1].shown /\ ~figures[2].shown

(* ---- C6 ---- *)
FrameMatchesFile(df, f) ==
    /\ df.loaded
    /\ DOMAIN df.col = ColumnsOf(f)
    /\ \A c \in ColumnsOf(f) : df.col[c] = FieldsOf(f, c)

\* C6: within a run a loaded table never changes, each load statement runs
\* at most once, and at exit both tables still hold exactly the columns and
\* rows of their files.
C6_TablesReadOnly ==
    /\ [](status = "done" =>
            /\ FrameMatchesFile(data, fs[PathData])
            /\ FrameMatchesFile(data_scw, fs[PathScw]))
    /\ [][run' = run =>
            /\ data.loaded => data' = data
            /\ data_scw.loaded => data_scw' = data_scw]_vars

C6_Witness ==
    /\ status = "done"
    /\ Len(fs[PathData].records) = 2 /\ Len(fs[PathScw].records) = 2
    /\ FrameMatchesFile(data, fs[PathData])
    /\ FrameMatchesFile(data_scw, fs[PathScw])
    /\ fs[PathData] # fs[PathScw]

MissingAccessLines ==
    {r[1] : r \in {q \in Referenced : q[3] \notin ColumnsOf(fs[q[2]])}}
OnlyDeltaECMissing ==
    /\ Parseable(fs[PathScw]) /\ ColumnsOf(fs[PathScw]) = ColumnSet \ {"deltaEC"}
    /\ Parseable(fs[PathData]) /\ {"D", "R_dl"} \subseteq ColumnsOf(fs[PathData])
    /\ display = "ok"

\* C8: a missing column never fails a load; the KeyError is raised at the
\* first plotting line that names a missing column, with both tables loaded
\* and every earlier figure complete and shown.  A bent file lacking only
\* deltaEC fails at line 45, after Figures 1 and 2.
C8_MissingColumnSurfacesAtRender ==
    /\ (status = "running" /\ pc > 5) => data.loaded
    /\ (status = "running" /\ pc > 6) => data_scw.loaded
    /\ err.type = "KeyError" =>
         /\ data.loaded /\ data_scw.loaded
         /\ pc \in MissingAccessLines
         /\ \A l \in MissingAccessLines : pc <= l
         /\ \E r \in Referenced : r[1] = pc /\ r[3] = err.key
                                  /\ r[3] \notin ColumnsOf(fs[r[2]])
         /\ pc > 14 => Fig1Complete
         /\ pc > 23 => Fig2Complete
    /\ (OnlyDeltaECMissing /\ status = "aborted") =>
         /\ pc = 45 /\ err = KeyError("deltaEC")
         /\ Fig1Complete /\ Fig2Complete

C8_Witness ==
    /\ OnlyDeltaECMissing /\ status = "aborted" /\ pc = 45
    /\ err = KeyError("deltaEC") /\ Fig1Complete /\ Fig2Complete

(* ---- C9 ---- *)
PanelColumn == <<"amp", "R_dl", "deltaEC">>
ExpectedPanel(i) ==
    <<Line2D(FieldsOf(fs[PathScw], "D"), FieldsOf(fs[PathScw], PanelColumn[i]),
             "--", "r", "BCh")>>

\* C9: a panel of Figure 3 is either still empty or holds exactly one series,
\* whose points are the bent file's (D, column) fields in row order, with
\* column amp, R_dl, deltaEC for the top, middle, bottom panel; at the end
\* all three panels hold their series, and only the middle one is log-scaled.
C9_PanelsPlotBentColumns ==
    fig # 0 =>
        /\ \A i \in 1..3 : LinesOn(fig, i) = <<>> \/ LinesOn(fig, i) = ExpectedPanel(i)
        /\ figures[fig].axes[1].yscale = "linear"
        /\ figures[fig].axes[3].yscale = "linear"
        /\ status = "done" =>
             /\ \A i \in 1..3 : LinesOn(fig, i) = ExpectedPanel(i)
             /\ figures[fig].axes[2].yscale = "log"

C9_Witness ==
    /\ status = "done" /\ fig = 3
    /\ Len(fs[PathScw].records) = 2
    /\ fs[PathScw].records[1] # fs[PathScw].records[2]
    /\ fs[PathData].records # fs[PathScw].records
    /\ \A i \in 1..3 : LinesOn(3, i) = ExpectedPanel(i)

(* ---- C10 ---- *)
\* C10: the only columns of the non-bent table ever read are D and R_dl, at
\* line 17; a run whose non-bent file parses and has D and R_dl, with a
\* well-formed bent file (and a working display), never fails.
C10_NonBentOnlyDAndRdl ==
    /\ \A r \in reads : r.table = "data" => r.line = 17 /\ r.col \in {"D", "R_dl"}
    /\ (/\ Parseable(fs[PathData]) /\ {"D", "R_dl"} \subseteq ColumnsOf(fs[PathData])
        /\ WellFormed(fs[PathScw]) /\ display = "ok") => status # "aborted"

C10_Witness ==
    /\ status = "done" /\ Len(figures) = 3 /\ Fig3Complete
    /\ ColumnsOf(fs[PathData]) = {"D", "R_dl"}
    /\ \E r \in reads : r.table = "data"
====
